---- MODULE Spec2Model ----
(***************************************************************************)
(* Model of the SHL assessment recommender: the CatalogIndex life cycle    *)
(* (build / load / search over two on-disk artifacts), the retrieval       *)
(* service on top of it, and the FastAPI process that serves it from a     *)
(* lazily initialised engine singleton.                                    *)
(*                                                                         *)
(* Floating point similarity scores are kept as integers scaled by 1000.   *)
(* Embedding vectors are kept in polar form (direction on an 8-point       *)
(* compass, magnitude), which is closed under L2 normalisation and inner   *)
(* product.                                                                *)
(***************************************************************************)
EXTENDS Integers, Sequences, FiniteSets, TLC

\* ---------------------------------------------------------------- bounds
MaxRows == 2          \* rows of a catalog snapshot
MaxBuilds == 2        \* build invocations in one behaviour
MaxTopK == 2          \* largest top_k passed to search directly
MaxBucket == 5        \* candidates of one domain in a list passed to rerank

\* ---------------------------------------------------------------- values
\* Python values that occur in a metadata cell.
Val(t, s, n) == [t |-> t, s |-> s, n |-> n]
Str(s) == Val("str", s, 0)
Num(n) == Val("num", "", n)
NaN == Val("nan", "", 0)
PyNone == Val("none", "", 0)

NoFile == [status |-> "absent"]
None == [none |-> TRUE]

\* df = pd.read_csv(catalog_path): the rows a build can read.  An empty
\* CSV cell is NaN in the frame.
RowA ==
  [name |-> Str("Java 8"), url |-> Str("https://shl/java"), test_type |-> Str("K"),
   duration_minutes |-> Num(30), category |-> Str("Skills"),
   description |-> Str("java coding"), tags |-> Str("java|coding"),
   text_blob |-> Str("java")]
RowB ==
  [name |-> Str("OPQ"), url |-> NaN, test_type |-> NaN,
   duration_minutes |-> NaN, category |-> Str("Personality"),
   description |-> NaN, tags |-> NaN,
   text_blob |-> NaN]

\* The catalog file as the crawler grows it: its first n rows.
Catalog(n) == [j \in 1..n |-> IF j % 2 = 1 THEN RowA ELSE RowB]
Catalogs == {Catalog(n) : n \in 0..MaxRows}

\* ------------------------------------------------------------------ text
\* A text is a sequence of tokens; a run of whitespace is a token of its
\* own.  An optional text is None or a text.
NoText == [given |-> FALSE]
Text(t) == [given |-> TRUE, toks |-> t]
\* Python truthiness of an optional string: None and "" are falsy.
Truthy(o) == o.given /\ Len(o.toks) > 0
IsSpace(tok) == tok \in {" ", "\n\n"}
RECURSIVE LStrip(_)
LStrip(t) == IF t # <<>> /\ IsSpace(Head(t)) THEN LStrip(Tail(t)) ELSE t
RECURSIVE RStrip(_)
RStrip(t) ==
  IF t # <<>> /\ IsSpace(t[Len(t)]) THEN RStrip(SubSeq(t, 1, Len(t) - 1)) ELSE t
\* str.strip()
Strip(t) == RStrip(LStrip(t))
\* A catalog string as a text.
Tokens(str) == IF str = "" THEN <<>> ELSE <<str>>

\* ------------------------------------------------------------- embedding
\* The sentence-transformers model is opaque: a fixed function from text to
\* a raw (unnormalised) vector.
Vec(d, m) == [dir |-> d, mag |-> m]
TokCode(tok) ==
  CASE tok = "java" -> 4
    [] tok = "developer" -> 1
    [] tok = "team" -> 7
    [] tok = "reasoning" -> 6
    [] tok = "jd" -> 3
    [] IsSpace(tok) -> 0
    [] OTHER -> 2
RECURSIVE SumCodes(_)
SumCodes(t) == IF t = <<>> THEN 0 ELSE TokCode(Head(t)) + SumCodes(Tail(t))
ModelEncode(text) == Vec((4 + SumCodes(text)) % 8, 1 + Len(text))

\* Embedder.embed_texts: one vector per text, in order.
embed_texts(texts) == [j \in 1..Len(texts) |-> ModelEncode(texts[j])]
\* Embedder.embed_text
embed_text(text) == embed_texts(<<text>>)[1]

\* faiss.normalize_L2: unit length, a zero vector stays zero.
normalize_L2(v) == IF v.mag = 0 THEN v ELSE Vec(v.dir, 1)

\* cos(45 degrees * d) * 1000
Cos8(d) ==
  CASE d = 0 -> 1000
    [] d \in {1, 7} -> 707
    [] d \in {2, 6} -> 0
    [] d \in {3, 5} -> -707
    [] OTHER -> -1000
\* IndexFlatIP metric: inner product.
InnerProduct(a, b) == a.mag * b.mag * Cos8((a.dir - b.dir) % 8)

\* df["text_blob"].fillna("").tolist()
FillNa(v) == IF v.t = "nan" THEN "" ELSE v.s
TextsOf(df) == [j \in 1..Len(df) |-> Tokens(FillNa(df[j].text_blob))]

\* lines 53-60 of build: embed, normalise, add to a flat index.
BuildVectors(df) ==
  LET e == embed_texts(TextsOf(df))
  IN [j \in 1..Len(df) |-> normalize_L2(e[j])]

\* ------------------------------------------------------------------ JSON
\* json.dump(meta) / json.load: a NaN float is written as the bare token
\* NaN and read back as float('nan'); null is read back as None.
JsonDumpVal(v) ==
  CASE v.t = "str" -> [j |-> "string", s |-> v.s, n |-> 0]
    [] v.t = "num" -> [j |-> "number", s |-> "", n |-> v.n]
    [] v.t = "nan" -> [j |-> "NaN", s |-> "", n |-> 0]
    [] OTHER -> [j |-> "null", s |-> "", n |-> 0]
\* A decoder that follows the JSON grammar: the bare token NaN is no number.
JsonLoadValStrict(x) ==
  CASE x.j = "string" -> Str(x.s)
    [] x.j = "number" -> Num(x.n)
    [] OTHER -> PyNone
JsonLoadVal(x) ==
  CASE x.j = "string" -> Str(x.s)
    [] x.j = "number" -> Num(x.n)
    [] x.j = "NaN" -> NaN
    [] OTHER -> PyNone
JsonDump(rows) ==
  [j \in 1..Len(rows) |-> [f \in DOMAIN rows[j] |-> JsonDumpVal(rows[j][f])]]
JsonLoad(doc) ==
  [j \in 1..Len(doc) |-> [f \in DOMAIN doc[j] |-> JsonLoadVal(doc[j][f])]]

\* df.to_dict(orient="records")
to_dict(df) == df

\* ----------------------------------------------------------------- state
\* Instance 1 belongs to a script (build_index.py builds with it, the
\* evaluation scripts load and query it); instance 2 is a pure consumer.
Insts == {1, 2}
Builders == {1}
Servers == {2}

VARIABLES
  faissFile,   \* the vector artifact at faiss_path
  metaFile,    \* the metadata artifact at meta_path
  index,       \* index[i]: CatalogIndex.index of instance i
  meta,        \* meta[i]: CatalogIndex.meta of instance i
  ipc,         \* ipc[i]: position of instance i inside build/load/search
  loc,         \* loc[i]: locals of the operation in progress on instance i
  ret,         \* outcome of the operation that finished last
  fx,          \* the last step: the call it started, what it did outside
  nbuilds,     \* build invocations started so far
  engine,      \* main.py global _engine
  loop,        \* the request whose handler the event loop is running
  rq,          \* rq[r]: position, payload and response of request r
  nModel,      \* Embedder() constructions in the server process
  nLoads,      \* load() calls that returned in get_engine
  batch,       \* the prediction loop of an evaluation script
  inp          \* the arguments a caller holds for a direct function call

scriptvars == <<batch, inp>>
appvars == <<engine, loop, rq, nModel, nLoads, batch, inp>>
vars == <<faissFile, metaFile, index, meta, ipc, loc, ret, fx, nbuilds,
          engine, loop, rq, nModel, nLoads, batch, inp>>

\* Request 0 is the startup event, the others are HTTP requests.
NumReqs == 2
Reqs == 0..NumReqs
Free == -1
NewReq == [pc |-> "new"]

\* The record of a step: the API call it started ("step" when it continues
\* one), the arguments of the call, and the outside effects it performed.
NoArgs == [n |-> 0]
Fx(call, args, did) == [call |-> call, args |-> args, did |-> did]
Step(did) == Fx("step", NoArgs, did)

Exists(file) == file.status # "absent"
NoLoc == [op |-> "none"]

NoBatch == [kind |-> "none"]
NoInput == [fn |-> "none"]

\* Everything but the arguments of a direct call.
InitBase ==
  /\ faissFile = NoFile
  /\ metaFile = NoFile
  /\ index = [i \in Insts |-> None]
  /\ meta = [i \in Insts |-> None]
  /\ ipc = [i \in Insts |-> "idle"]
  /\ loc = [i \in Insts |-> NoLoc]
  /\ ret = [inst |-> 0, op |-> "none", out |-> "none"]
  /\ fx = Step({})
  /\ nbuilds = 0
  /\ engine = None
  /\ loop = Free
  /\ rq = [r \in Reqs |-> NewReq]
  /\ nModel = 0
  /\ nLoads = 0
  /\ batch = NoBatch

Init == InitBase /\ inp = NoInput

\* ----------------------------------------------------------------- build
\* The early return with the sense of force inverted.
BuildSkipsForced(force, f, m) == force /\ Exists(f) /\ Exists(m)
\* line 41: the early return of build.
BuildSkips(force, f, m) == ~force /\ Exists(f) /\ Exists(m)

\* lines 41-62: the guard, then read the snapshot, embed it and build the
\* in-memory index; nothing is written yet.
BuildCall(i, force, df) ==
  /\ ipc[i] = "idle"
  /\ nbuilds < MaxBuilds
  /\ nbuilds' = nbuilds + 1
  /\ IF BuildSkips(force, faissFile, metaFile)
     THEN /\ ret' = [inst |-> i, op |-> "build", out |-> "skipped"]
          /\ fx' = Fx("build", [force |-> force], {})
          /\ UNCHANGED <<ipc, loc>>
     ELSE /\ ipc' = [ipc EXCEPT ![i] = "b_write_index"]
          /\ loc' = [loc EXCEPT ![i] =
                       [op |-> "build", id |-> nbuilds + 1, df |-> df,
                        index |-> [build |-> nbuilds + 1, vecs |-> BuildVectors(df)]]]
          /\ fx' = Fx("build", [force |-> force], {"read_csv", "embed"})
          /\ UNCHANGED ret
  /\ UNCHANGED <<faissFile, metaFile, index, meta>>
  /\ UNCHANGED appvars

\* line 63, first half: faiss.write_index opens faiss_path for writing.
BuildOpenIndex(i) ==
  /\ ipc[i] = "b_write_index"
  /\ faissFile' = [status |-> "partial", build |-> loc[i].id]
  /\ ipc' = [ipc EXCEPT ![i] = "b_writing_index"]
  /\ fx' = Step({"write_faiss"})
  /\ UNCHANGED <<metaFile, index, meta, loc, ret, nbuilds>>
  /\ UNCHANGED appvars

\* line 63, second half: the vector artifact is complete.
BuildWriteIndex(i) ==
  /\ ipc[i] = "b_writing_index"
  /\ faissFile' = [status |-> "full", build |-> loc[i].id, vecs |-> loc[i].index.vecs]
  /\ ipc' = [ipc EXCEPT ![i] = "b_set_meta"]
  /\ fx' = Step({"write_faiss"})
  /\ UNCHANGED <<metaFile, index, meta, loc, ret, nbuilds>>
  /\ UNCHANGED appvars

\* lines 67-68: self.meta = df.to_dict(orient="records")
BuildSetMeta(i) ==
  /\ ipc[i] = "b_set_meta"
  /\ meta' = [meta EXCEPT ![i] = [build |-> loc[i].id, rows |-> to_dict(loc[i].df)]]
  /\ ipc' = [ipc EXCEPT ![i] = "b_open_meta"]
  /\ fx' = Step({})
  /\ UNCHANGED <<faissFile, metaFile, index, loc, ret, nbuilds>>
  /\ UNCHANGED appvars

\* line 69: open(meta_path, "w") truncates the metadata artifact.
BuildOpenMeta(i) ==
  /\ ipc[i] = "b_open_meta"
  /\ metaFile' = [status |-> "partial", build |-> loc[i].id]
  /\ ipc' = [ipc EXCEPT ![i] = "b_dump_meta"]
  /\ fx' = Step({"write_meta"})
  /\ UNCHANGED <<faissFile, index, meta, loc, ret, nbuilds>>
  /\ UNCHANGED appvars

\* lines 70-73: json.dump completes, then self.index = index.
BuildDumpMeta(i) ==
  /\ ipc[i] = "b_dump_meta"
  /\ metaFile' = [status |-> "full", build |-> loc[i].id, doc |-> JsonDump(meta[i].rows)]
  /\ index' = [index EXCEPT ![i] = loc[i].index]
  /\ ipc' = [ipc EXCEPT ![i] = "idle"]
  /\ loc' = [loc EXCEPT ![i] = NoLoc]
  /\ ret' = [inst |-> i, op |-> "build", out |-> "ok", id |-> loc[i].id,
             df |-> loc[i].df]
  /\ fx' = Step({"write_meta"})
  /\ UNCHANGED <<faissFile, meta, nbuilds>>
  /\ UNCHANGED appvars

InBuild(i) == ipc[i] \in {"b_write_index", "b_writing_index", "b_set_meta",
                          "b_open_meta", "b_dump_meta"}

\* An I/O error or an interrupt while build is between lines 63 and 73: the
\* exception leaves build, whatever was written stays.
BuildFail(i) ==
  /\ InBuild(i)
  /\ ipc' = [ipc EXCEPT ![i] = "idle"]
  /\ loc' = [loc EXCEPT ![i] = NoLoc]
  /\ ret' = [inst |-> i, op |-> "build", out |-> "error"]
  /\ fx' = Step({})
  /\ UNCHANGED <<faissFile, metaFile, index, meta, nbuilds>>
  /\ UNCHANGED appvars

\* ------------------------------------------------------------------ load
\* Operations that run load(): load itself, and search / get_size /
\* retrieve_candidates on an instance whose index is None.  loc[i].op
\* names the caller that continues after load returns.

\* The existence check with "and" for "or".
LoadMissingBoth(f, m) == ~Exists(f) /\ ~Exists(m)
\* line 77: the existence check on entry to load().
LoadMissing(f, m) == ~Exists(f) \/ ~Exists(m)

\* The build that finished last before this point, when no other operation
\* finished after it (kept with the locals of load to relate what load
\* reads to what that build wrote).
LastBuild == IF ret.op = "build" /\ ret.out = "ok" THEN ret ELSE [op |-> "none"]

\* lines 77-81 for a caller with locals l.
LoadEnter(i, l) ==
  IF LoadMissing(faissFile, metaFile)
  THEN /\ ret' = [inst |-> i, op |-> l.op, out |-> "FileNotFoundError"]
       /\ ipc' = [ipc EXCEPT ![i] = "idle"]
       /\ loc' = [loc EXCEPT ![i] = NoLoc]
  ELSE /\ ipc' = [ipc EXCEPT ![i] = "l_read_index"]
       /\ loc' = [loc EXCEPT ![i] = l @@ [after |-> LastBuild]]
       /\ UNCHANGED ret

\* CatalogIndex.load() called directly.
LoadCall(i) ==
  /\ ipc[i] = "idle"
  /\ LoadEnter(i, [op |-> "load"])
  /\ fx' = Fx("load", NoArgs, {"load"})
  /\ UNCHANGED <<faissFile, metaFile, index, meta, nbuilds>>
  /\ UNCHANGED appvars

\* line 84: self.index = faiss.read_index(...); a truncated file raises.
LoadReadIndex(i) ==
  /\ ipc[i] = "l_read_index"
  /\ fx' = Step({"read_faiss"})
  /\ IF faissFile.status = "full"
     THEN /\ index' = [index EXCEPT ![i] =
                         [build |-> faissFile.build, vecs |-> faissFile.vecs]]
          /\ ipc' = [ipc EXCEPT ![i] = "l_read_meta"]
          /\ UNCHANGED <<loc, ret>>
     ELSE /\ ret' = [inst |-> i, op |-> loc[i].op, out |-> "ReadError"]
          /\ ipc' = [ipc EXCEPT ![i] = "idle"]
          /\ loc' = [loc EXCEPT ![i] = NoLoc]
          /\ UNCHANGED index
  /\ UNCHANGED <<faissFile, metaFile, meta, nbuilds>>
  /\ UNCHANGED appvars

\* lines 86-89: self.meta = json.load(f); a truncated file raises.
LoadReadMeta(i) ==
  /\ ipc[i] = "l_read_meta"
  /\ fx' = Step({"read_meta"})
  /\ IF metaFile.status = "full"
     THEN /\ meta' = [meta EXCEPT ![i] =
                        [build |-> metaFile.build, rows |-> JsonLoad(metaFile.doc)]]
          /\ IF loc[i].op = "load"
             THEN /\ ipc' = [ipc EXCEPT ![i] = "idle"]
                  /\ loc' = [loc EXCEPT ![i] = NoLoc]
                  /\ ret' = [inst |-> i, op |-> "load", out |-> "ok",
                             after |-> loc[i].after]
             ELSE /\ ipc' = [ipc EXCEPT ![i] = "after_load"]
                  /\ UNCHANGED <<loc, ret>>
     ELSE /\ ret' = [inst |-> i, op |-> loc[i].op, out |-> "JSONDecodeError"]
          /\ ipc' = [ipc EXCEPT ![i] = "idle"]
          /\ loc' = [loc EXCEPT ![i] = NoLoc]
          /\ UNCHANGED meta
  /\ UNCHANGED <<faissFile, metaFile, index, nbuilds>>
  /\ UNCHANGED appvars

\* ---------------------------------------------------------------- rerank
Min(a, b) == IF a < b THEN a ELSE b
Max(a, b) == IF a > b THEN a ELSE b
Range(f) == {f[j] : j \in DOMAIN f}
\* A slice that does not cut.
TakeAll(seq, n) == seq
\* seq[:n] for n >= 0
Take(seq, n) == SubSeq(seq, 1, Min(n, Len(seq)))
\* dict.get(key, default)
Get(c, f, default) == IF f \in DOMAIN c THEN c[f] ELSE default

Ok(v) == [ok |-> TRUE, v |-> v]
Raise(e) == [ok |-> FALSE, err |-> e]

\* Token classes for the two duration patterns.  A number token is read in
\* tenths ("1.5" is 15); -1 when the token is no number.
Tenths(tok) ==
  CASE tok = "1.5" -> 15
    [] tok = "2" -> 20
    [] tok = "4.1" -> 41
    [] tok = "30" -> 300
    [] tok = "40" -> 400
    [] tok = "90" -> 900
    [] OTHER -> -1
\* the token begins with "hour" / with "min", in any letter case
StartsHour(tok) == tok \in {"hour", "hours", "Hours"}
StartsMin(tok) == tok \in {"min", "mins", "minutes", "minimum"}

\* Position after the whitespace tokens that follow position p.
RECURSIVE SkipSpace(_, _)
SkipSpace(t, p) == IF p <= Len(t) /\ IsSpace(t[p]) THEN SkipSpace(t, p + 1) ELSE p

\* The unit word of a duration pattern: "hour" for hours?, "min" for mins?.
IsUnit(tok, unit) == IF unit = "hour" THEN StartsHour(tok) ELSE StartsMin(tok)

\* re.search(number \s* unit): the number of the leftmost match, or -1.
FirstMatch(t, unit) ==
  LET hits == {p \in 1..Len(t) :
                 /\ Tenths(t[p]) >= 0
                 /\ SkipSpace(t, p + 1) <= Len(t)
                 /\ IsUnit(t[SkipSpace(t, p + 1)], unit)}
  IN IF hits = {} THEN -1
     ELSE Tenths(t[CHOOSE p \in hits : \A r \in hits : p <= r])

NoInt == [given |-> FALSE]
SomeInt(n) == [given |-> TRUE, n |-> n]

\* int(float(number) * 60) for a number given in tenths.  The product is
\* taken in binary floating point: for 4.1, 8.2, 16.4 and 16.9 it is just
\* below the whole number (4.1 * 60 = 245.99999999999997) and int() cuts it
\* to the number below.
RoundsBelow == {41, 82, 164, 169}
IntOfHours(h) == IF h \in RoundsBelow THEN (h * 60) \div 10 - 1 ELSE (h * 60) \div 10

\* rerank.py lines 8-26
infer_max_duration(t) ==
  LET h == FirstMatch(t, "hour")
      m == FirstMatch(t, "min")
  IN IF h >= 0 THEN SomeInt(IntOfHours(h))
     ELSE IF m >= 0 THEN SomeInt(m \div 10)
     ELSE NoInt

\* Keywords that occur in the lower-cased token.
KeywordsIn(tok) ==
  CASE tok = "java" -> {"java"}
    [] tok = "developer" -> {"developer"}
    [] tok = "team" -> {"team"}
    [] tok = "reasoning" -> {"reasoning"}
    [] tok = "benefit" -> {"fit"}
    [] OTHER -> {}
technical_kw ==
  {"java", "python", "sql", "javascript", "react", "developer", "engineer",
   "frontend", "backend", "coding", "automation", "testing", "qa", "technical",
   "programming", "knowledge", "skill", "proficient", "expertise"}
behavioral_kw ==
  {"collaborate", "communication", "personality", "leadership", "team",
   "interpersonal", "behavioral", "soft skill", "culture", "fit", "manager",
   "management"}
cognitive_kw ==
  {"cognitive", "reasoning", "analytical", "logical", "problem", "iq",
   "aptitude", "numeracy", "verbal", "ability"}
Mentions(t, kws) == \E p \in 1..Len(t) : KeywordsIn(t[p]) \cap kws # {}

\* rerank.py lines 28-62
infer_desired_domains(t) ==
  [wants_technical |-> Mentions(t, technical_kw),
   wants_behavioral |-> Mentions(t, behavioral_kw),
   wants_cognitive |-> Mentions(t, cognitive_kw)]

\* str.upper().strip() on a test type cell
UpperStrip(str) ==
  CASE str \in {"k", " K", "K "} -> "K"
    [] str \in {"p", " P", "P "} -> "P"
    [] OTHER -> str

\* rerank.py lines 64-79.  A float (NaN, or a non-zero number) is truthy
\* and has no upper(): the call raises.
categorize_test_type(v) ==
  IF v.t = "none" \/ (v.t = "str" /\ v.s = "") \/ (v.t = "num" /\ v.n = 0)
  THEN Ok("other")
  ELSE IF v.t # "str" THEN Raise("AttributeError")
  ELSE LET c == UpperStrip(v.s)
       IN Ok(CASE c \in {"K", "V"} -> "technical"
               [] c \in {"P", "L"} -> "behavioral"
               [] c \in {"C", "N", "R"} -> "cognitive"
               [] OTHER -> "other")

\* rerank.py line 92: dur is None or dur <= max_minutes (a comparison with
\* NaN is False)
KeepsDuration(c, maxm) ==
  LET dur == Get(c, "duration_minutes", PyNone)
  IN dur.t = "none" \/ (dur.t = "num" /\ dur.n <= maxm)

\* A filter that keeps every candidate.
KeepAll(cands, maxd) == cands
\* rerank.py lines 81-95
apply_duration_filter(cands, maxd) ==
  IF ~maxd.given THEN cands
  ELSE SelectSeq(cands, LAMBDA c : KeepsDuration(c, maxd.n))

DomainOf(c) == categorize_test_type(Get(c, "test_type", Str("")))
\* Buckets that hold every candidate.
BucketAll(cands, d) == cands
Bucket(cands, d) == SelectSeq(cands, LAMBDA c : DomainOf(c).v = d)
Count(b) == IF b THEN 1 ELSE 0

\* A membership test that finds nothing selected.
NeverIn(c, result) == TRUE
\* rerank.py line 154: c not in result, by dict equality
NotIn(c, result) == c \notin Range(result)

\* rerank.py lines 97-159
balance_by_domains(cands, dd, k) ==
  IF ~(dd.wants_technical \/ dd.wants_behavioral \/ dd.wants_cognitive)
  THEN Ok(Take(cands, k))
  ELSE IF \E j \in 1..Len(cands) : ~DomainOf(cands[j]).ok
  THEN Raise("AttributeError")
  ELSE
    LET n == Count(dd.wants_technical) + Count(dd.wants_behavioral)
               + Count(dd.wants_cognitive)
        slots == Max(1, k \div n)
        picked ==
          (IF dd.wants_technical THEN Take(Bucket(cands, "technical"), slots) ELSE <<>>)
          \o (IF dd.wants_behavioral THEN Take(Bucket(cands, "behavioral"), slots) ELSE <<>>)
          \o (IF dd.wants_cognitive THEN Take(Bucket(cands, "cognitive"), slots) ELSE <<>>)
        remaining == k - Len(picked)
        rest == SelectSeq(cands, LAMBDA c : NotIn(c, picked))
        result == IF remaining > 0 THEN picked \o Take(rest, remaining) ELSE picked
    IN Ok(Take(result, k))

\* rerank.py lines 161-189
rerank(query, cands, k) ==
  LET filtered == apply_duration_filter(cands, infer_max_duration(query))
      balanced == balance_by_domains(filtered, infer_desired_domains(query), k)
  IN IF balanced.ok THEN Ok(Take(balanced.v, k)) ELSE balanced

\* recommend.py lines 67-79: one output record
FormatRec(c) ==
  [assessment_name |-> Get(c, "name", Str("Unknown")),
   assessment_url |-> Get(c, "url", Str("")),
   test_type |-> Get(c, "test_type", PyNone),
   duration_minutes |-> Get(c, "duration_minutes", PyNone),
   category |-> Get(c, "category", PyNone),
   synthetic |-> Get(c, "url", PyNone).t = "none"]

\* recommend.py line 44: the over-fetch window
OverFetch == 50

\* recommend.py lines 46-83, after retrieve_candidates returned cands
RecommendTail(text, cands, k) ==
  IF cands = <<>> THEN Ok(<<>>)
  ELSE LET ranked == rerank(text, cands, k)
       IN IF ranked.ok
          THEN Ok([j \in 1..Len(ranked.v) |-> FormatRec(ranked.v[j])])
          ELSE ranked

\* ---------------------------------------------------------------- search
\* What IndexFlatIP.search(q, k) may return as the id row: k distinct
\* positions holding the k largest inner products, best first.  The order
\* among equal scores is left to the library.
TopKOrders(vecs, q, k) ==
  {s \in [1..k -> 1..Len(vecs)] :
     /\ \A a, b \in 1..k : a < b =>
           /\ s[a] # s[b]
           /\ InnerProduct(q, vecs[s[a]]) >= InnerProduct(q, vecs[s[b]])
     /\ \A e \in (1..Len(vecs)) \ Range(s) : \A a \in 1..k :
           InnerProduct(q, vecs[e]) <= InnerProduct(q, vecs[s[a]])}

\* line 115: [self.meta[i] for i in idxs[0] if i < len(self.meta)], as the
\* positions (1-based) of the rows that are kept.
KeptIds(ids, nmeta) == SelectSeq(ids, LAMBDA x : x <= nmeta)

\* retrieval.py lines 79-80: zip(scores, candidates) pairs position by
\* position and stops at the shorter one; the score is stored in the row
\* object that self.meta holds.
AttachScores(rows, scores, kept) ==
  [r \in 1..Len(rows) |->
     IF \E j \in 1..Min(Len(scores), Len(kept)) : kept[j] = r
     THEN LET j == CHOOSE j \in 1..Min(Len(scores), Len(kept)) : kept[j] = r
          IN [f \in DOMAIN rows[r] \cup {"retrieval_score"} |->
                IF f = "retrieval_score" THEN Num(scores[j]) ELSE rows[r][f]]
     ELSE rows[r]]

\* lines 110-116 of search: the outcomes the call can have on a set index.
SearchOutcomes(i, q, topk) ==
  LET k == Min(topk, Len(index[i].vecs))
  IN IF k = 0
     THEN \* faiss asserts k > 0 in recent releases, older ones return
          \* empty arrays
          {[out |-> "AssertionError"],
           [out |-> "ok", scores |-> <<>>, ids |-> <<>>]}
     ELSE {IF meta[i] = None
           THEN [out |-> "TypeError"]    \* len(None)
           ELSE [out |-> "ok",
                 scores |-> [j \in 1..k |-> InnerProduct(q, index[i].vecs[ids[j]])],
                 ids |-> KeptIds(ids, Len(meta[i].rows))]
           : ids \in TopKOrders(index[i].vecs, q, k)}

\* search, retrieve_candidates or recommend from the point where the index
\* is set: the search, then (retrieval.py lines 76-83) the scores attached
\* to the returned rows, then (recommend.py lines 46-83) rerank and format.
SearchBody(i, l) ==
  LET q == normalize_L2(l.q)
  IN \E o \in SearchOutcomes(i, q, l.k) :
       IF o.out # "ok"
       THEN /\ ret' = [inst |-> i, op |-> l.op, out |-> o.out]
            /\ UNCHANGED meta
       ELSE LET rows2 == IF l.op = "search" THEN meta[i].rows
                         ELSE AttachScores(meta[i].rows, o.scores, o.ids)
                cands == [j \in 1..Len(o.ids) |-> rows2[o.ids[j]]]
                found == [inst |-> i, op |-> l.op, out |-> "ok", k |-> l.k, q |-> q,
                          ntotal |-> Len(index[i].vecs),
                          scores |-> o.scores, ids |-> o.ids, rows |-> cands]
            IN /\ meta' = IF meta[i] = None THEN meta
                          ELSE [meta EXCEPT ![i].rows = rows2]
               /\ ret' = IF l.op # "recommend" THEN found
                         ELSE LET r == RecommendTail(l.text, cands, l.topk)
                              IN IF r.ok
                                 THEN [inst |-> i, op |-> l.op, out |-> "ok",
                                       topk |-> l.topk, text |-> l.text,
                                       window |-> l.k, cands |-> cands,
                                       results |-> r.v]
                                 ELSE [inst |-> i, op |-> l.op, out |-> r.err]

\* An operation that needs the index: run it now when the index is set,
\* otherwise enter load() first (lines 106-107, 120-121).
WithIndex(i, l, call, args, pre) ==
  IF index[i] = None
  THEN /\ LoadEnter(i, l)
       /\ fx' = Fx(call, args, pre \cup {"load"})
       /\ UNCHANGED meta
  ELSE /\ fx' = Fx(call, args, pre \cup (IF l.op = "size" THEN {} ELSE {"search"}))
       /\ IF l.op = "size"
          THEN /\ ret' = [inst |-> i, op |-> "size", out |-> "ok", n |-> Len(index[i].vecs)]
               /\ UNCHANGED meta
          ELSE SearchBody(i, l)
       /\ ipc' = [ipc EXCEPT ![i] = "idle"]
       /\ loc' = [loc EXCEPT ![i] = NoLoc]

\* CatalogIndex.search(query_vec, top_k)
SearchCall(i, qv, k) ==
  /\ ipc[i] = "idle"
  /\ WithIndex(i, [op |-> "search", q |-> qv, k |-> k], "search", [k |-> k], {})
  /\ UNCHANGED <<faissFile, metaFile, index, nbuilds>>
  /\ UNCHANGED appvars

\* RecommenderService.retrieve_candidates(query, top_k)
RetrieveCall(i, text, k) ==
  /\ ipc[i] = "idle"
  /\ WithIndex(i, [op |-> "retrieve", q |-> embed_text(text), k |-> k],
               "retrieve", [k |-> k], {"embed"})
  /\ UNCHANGED <<faissFile, metaFile, index, nbuilds>>
  /\ UNCHANGED appvars

\* CatalogIndex.get_size()
SizeCall(i) ==
  /\ ipc[i] = "idle"
  /\ WithIndex(i, [op |-> "size"], "size", NoArgs, {})
  /\ UNCHANGED <<faissFile, metaFile, index, nbuilds>>
  /\ UNCHANGED appvars

\* The caller of an implicit load() continues after load returned.
AfterLoad(i) ==
  /\ ipc[i] = "after_load"
  /\ loc[i].op \in {"search", "retrieve", "recommend", "size"}
  /\ IF loc[i].op = "size"
     THEN /\ ret' = [inst |-> i, op |-> "size", out |-> "ok", n |-> Len(index[i].vecs)]
          /\ UNCHANGED meta
     ELSE SearchBody(i, loc[i])
  /\ ipc' = [ipc EXCEPT ![i] = "idle"]
  /\ loc' = [loc EXCEPT ![i] = NoLoc]
  /\ fx' = Step(IF loc[i].op = "size" THEN {} ELSE {"search"})
  /\ UNCHANGED <<faissFile, metaFile, index, nbuilds>>
  /\ UNCHANGED appvars

QueryVecs == {Vec(6, 3)}
Queries == {<<"java", " ", "developer">>}
TopKs == 0..MaxTopK

\* ------------------------------------------------------------- recommend
\* normalize_input that fetches whenever there is no query text.
NormalizeStartFetchFirst(query, jd) ==
  IF Truthy(jd) \/ ~Truthy(query) THEN "fetch" ELSE "text"
\* retrieval.py lines 39-55: what normalize_input does first.
NormalizeStart(query, jd) ==
  IF Truthy(jd) THEN "fetch"
  ELSE IF Truthy(query) THEN "text"
  ELSE "ValueError"

\* retrieval.py lines 43-49: the text returned once the page is fetched.
NormalizeFetched(query, jdtext) ==
  IF Truthy(query) THEN Strip(query.toks) \o <<"\n\n">> \o jdtext ELSE jdtext

\* recommend.py lines 43-44: retrieve_candidates(text, top_k=50)
StartRetrieve(i, text, topk, call, args) ==
  WithIndex(i, [op |-> "recommend", text |-> text, q |-> embed_text(text),
                k |-> OverFetch, topk |-> topk], call, args, {"embed"})

\* RecommendationEngine.recommend(query, jd_url, top_k) up to its first
\* blocking call, or to its end when there is none.
RecommendBody(i, query, jd, topk) ==
  /\ ipc[i] = "idle"
  /\ CASE NormalizeStart(query, jd) = "fetch" ->
            /\ ipc' = [ipc EXCEPT ![i] = "fetching"]
            /\ loc' = [loc EXCEPT ![i] = [op |-> "recommend", query |-> query, topk |-> topk]]
            /\ fx' = Fx("recommend", [query |-> query, jd |-> jd, topk |-> topk],
                         {"fetch"})
            /\ UNCHANGED <<ret, meta>>
       [] NormalizeStart(query, jd) = "text" ->
            /\ StartRetrieve(i, Strip(query.toks), topk, "recommend",
                             [query |-> query, jd |-> jd, topk |-> topk])
       [] OTHER ->
            /\ ret' = [inst |-> i, op |-> "recommend", out |-> "ValueError"]
            /\ fx' = Fx("recommend", [query |-> query, jd |-> jd, topk |-> topk], {})
            /\ UNCHANGED <<ipc, loc, meta>>
  /\ UNCHANGED <<faissFile, metaFile, index, nbuilds>>

\* jd_utils.py lines 19-34: requests.get answered, the page is cleaned to
\* jdtext; recommend goes on to retrieval.
FetchReturnBody(i, jdtext) ==
  /\ ipc[i] = "fetching"
  /\ StartRetrieve(i, NormalizeFetched(loc[i].query, jdtext), loc[i].topk,
                   "step", NoArgs)
  /\ UNCHANGED <<faissFile, metaFile, index, nbuilds>>

\* jd_utils.py lines 35-37: the request failed or timed out.
FetchFailBody(i) ==
  /\ ipc[i] = "fetching"
  /\ ret' = [inst |-> i, op |-> "recommend", out |-> "RequestException"]
  /\ ipc' = [ipc EXCEPT ![i] = "idle"]
  /\ loc' = [loc EXCEPT ![i] = NoLoc]
  /\ fx' = Step({})
  /\ UNCHANGED <<faissFile, metaFile, index, meta, nbuilds>>

\* recommend called by a script (evaluate_train.py, generate_test_preds.py).
RecommendCall(i, query, jd, topk) ==
  /\ RecommendBody(i, query, jd, topk)
  /\ UNCHANGED appvars
FetchReturn(i, jdtext) ==
  /\ loc[i].op = "recommend"
  /\ FetchReturnBody(i, jdtext)
  /\ UNCHANGED appvars
FetchFail(i) ==
  /\ loc[i].op = "recommend"
  /\ FetchFailBody(i)
  /\ UNCHANGED appvars

\* ------------------------------------------------------------------- app
\* config.py
DEFAULT_TOP_K == 10
MAX_RECOMMENDATIONS == 10
\* The CatalogIndex the server process holds in _index.
Server == 2

\* models/schemas.py AssessmentRecommendation: the field types pydantic
\* accepts when main.py lines 164-173 build the response.
ValidRec(r) ==
  /\ r.assessment_name.t = "str"
  /\ r.assessment_url.t = "str"
  /\ r.test_type.t \in {"str", "none"}
  /\ r.duration_minutes.t \in {"num", "none"}
  /\ r.category.t \in {"str", "none"}

\* main.py lines 157-191: the HTTP response for the outcome rt of
\* engine.recommend.
Response(rt) ==
  IF rt.out # "ok" THEN [pc |-> "done", status |-> 500]
  ELSE LET results == Take(rt.results, MAX_RECOMMENDATIONS)
       IN IF \A j \in 1..Len(results) : ValidRec(results[j])
          THEN [pc |-> "done", status |-> 200]
          ELSE [pc |-> "done", status |-> 500]

\* What the caller of get_engine does with its exception: startup_event
\* logs it (lines 88-92), the handlers answer 500.
Failed(kind) ==
  [pc |-> "done", status |-> IF kind = "startup" THEN 0 ELSE 500]

\* An event-loop task starts: the startup event (r = 0), GET /health or
\* POST /recommend.  Handlers are coroutines without an await, so a task
\* keeps the loop until it returns.  Runs to the end of get_engine's
\* checks (main.py lines 55-77).
HandlerStart(r, kind, query, jd) ==
  /\ loop = Free
  /\ rq[r].pc = "new"
  /\ IF r = 0 THEN kind = "startup"
     ELSE kind \in {"health", "recommend"} /\ rq[0].pc = "done"
  /\ kind # "recommend" => query = NoText /\ jd = NoText
  /\ UNCHANGED <<faissFile, metaFile, ret, nbuilds>>
  /\ UNCHANGED scriptvars
  /\ IF kind = "recommend" /\ ~Truthy(query) /\ ~Truthy(jd)
     THEN \* lines 141-145
          /\ fx' = Fx("handler", NoArgs, {})
          /\ rq' = [rq EXCEPT ![r] = [pc |-> "done", status |-> 400]]
          /\ UNCHANGED <<index, meta, ipc, loc, engine, loop, nModel, nLoads>>
     ELSE IF engine # None
     THEN \* lines 55-56
          /\ fx' = Fx("handler", NoArgs, {})
          /\ rq' = [rq EXCEPT ![r] = [pc |-> "ready", kind |-> kind, query |-> query,
                                      jd |-> jd, eng |-> engine.id]]
          /\ loop' = r
          /\ UNCHANGED <<index, meta, ipc, loc, engine, nModel, nLoads>>
     ELSE IF ~Exists(faissFile) \/ ~Exists(metaFile)
     THEN \* lines 61-69
          /\ fx' = Fx("handler", NoArgs, {})
          /\ rq' = [rq EXCEPT ![r] = Failed(kind)]
          /\ UNCHANGED <<index, meta, ipc, loc, engine, loop, nModel, nLoads>>
     ELSE \* lines 71-78: Embedder(), CatalogIndex(...), _index.load()
          /\ fx' = Fx("handler", NoArgs, {"model", "load"})
          /\ nModel' = nModel + 1
          /\ index' = [index EXCEPT ![Server] = None]
          /\ meta' = [meta EXCEPT ![Server] = None]
          /\ ipc' = [ipc EXCEPT ![Server] = "l_read_index"]
          /\ loc' = [loc EXCEPT ![Server] = [op |-> "engine"]]
          /\ rq' = [rq EXCEPT ![r] = [pc |-> "init", kind |-> kind, query |-> query,
                                      jd |-> jd]]
          /\ loop' = r
          /\ UNCHANGED <<engine, nLoads>>

\* A task whose get_engine reaches Embedder() (main.py line 71) and the
\* model cannot be constructed (embedder.py line 20 raises): nothing has
\* been assigned yet.
HandlerStartModelFails(r, kind) ==
  /\ loop = Free
  /\ rq[r].pc = "new"
  /\ IF r = 0 THEN kind = "startup"
     ELSE kind \in {"health", "recommend"} /\ rq[0].pc = "done"
  /\ engine = None
  /\ Exists(faissFile) /\ Exists(metaFile)
  /\ fx' = Fx("handler", NoArgs, {"model"})
  /\ rq' = [rq EXCEPT ![r] = Failed(kind)]
  /\ UNCHANGED <<faissFile, metaFile, index, meta, ipc, loc, ret, nbuilds,
                 engine, loop, nModel, nLoads>>
  /\ UNCHANGED scriptvars

\* main.py lines 78-83: _index.load() returned, the engine is published.
EngineLoaded(r) ==
  /\ rq[r].pc = "init"
  /\ ipc[Server] = "after_load"
  /\ loc[Server].op = "engine"
  /\ engine' = [id |-> nLoads + 1]
  /\ nLoads' = nLoads + 1
  /\ ipc' = [ipc EXCEPT ![Server] = "idle"]
  /\ loc' = [loc EXCEPT ![Server] = NoLoc]
  /\ rq' = [rq EXCEPT ![r] = [pc |-> "ready", kind |-> rq[r].kind,
                              query |-> rq[r].query, jd |-> rq[r].jd,
                              eng |-> nLoads + 1]]
  /\ fx' = Step({})
  /\ UNCHANGED <<faissFile, metaFile, index, meta, ret, nbuilds, loop, nModel>>
  /\ UNCHANGED scriptvars

\* A get_engine that publishes the engine although load() raised.
EngineFailedPublishes(r) ==
  /\ rq[r].pc = "init"
  /\ ipc[Server] = "idle"
  /\ engine' = [id |-> nLoads + 1]
  /\ rq' = [rq EXCEPT ![r] = Failed(rq[r].kind)]
  /\ loop' = Free
  /\ fx' = Step({})
  /\ UNCHANGED <<faissFile, metaFile, index, meta, ipc, loc, ret, nbuilds,
                 nModel, nLoads>>
  /\ UNCHANGED scriptvars

\* main.py line 78: _index.load() raised, get_engine raises.
EngineFailed(r) ==
  /\ rq[r].pc = "init"
  /\ ipc[Server] = "idle"
  /\ rq' = [rq EXCEPT ![r] = Failed(rq[r].kind)]
  /\ loop' = Free
  /\ fx' = Step({})
  /\ UNCHANGED <<faissFile, metaFile, index, meta, ipc, loc, ret, nbuilds,
                 engine, nModel, nLoads>>
  /\ UNCHANGED scriptvars

\* The handler after get_engine returned: startup_event and health are
\* done; recommend calls engine.recommend (main.py lines 150-155).
HandlerContinue(r) ==
  /\ rq[r].pc = "ready"
  /\ IF rq[r].kind # "recommend"
     THEN /\ rq' = [rq EXCEPT ![r] = [pc |-> "done", status |-> 200]]
          /\ loop' = Free
          /\ fx' = Step({})
          /\ UNCHANGED <<faissFile, metaFile, index, meta, ipc, loc, ret, nbuilds>>
     ELSE /\ RecommendBody(Server, rq[r].query, rq[r].jd, DEFAULT_TOP_K)
          /\ IF ipc'[Server] = "fetching"
             THEN /\ rq' = [rq EXCEPT ![r].pc = "fetching"]
                  /\ UNCHANGED loop
             ELSE /\ rq' = [rq EXCEPT ![r] = Response(ret')]
                  /\ loop' = Free
  /\ UNCHANGED <<engine, nModel, nLoads>>
  /\ UNCHANGED scriptvars

\* requests.get answered inside the handler of r.
ReqFetchReturn(r, jdtext) ==
  /\ rq[r].pc = "fetching"
  /\ FetchReturnBody(Server, jdtext)
  /\ rq' = [rq EXCEPT ![r] = Response(ret')]
  /\ loop' = Free
  /\ UNCHANGED <<engine, nModel, nLoads>>
  /\ UNCHANGED scriptvars

\* requests.get failed or timed out inside the handler of r.
ReqFetchFail(r) ==
  /\ rq[r].pc = "fetching"
  /\ FetchFailBody(Server)
  /\ rq' = [rq EXCEPT ![r] = Response(ret')]
  /\ loop' = Free
  /\ UNCHANGED <<engine, nModel, nLoads>>
  /\ UNCHANGED scriptvars

QueryOpts == {NoText, Text(<<>>), Text(<<"java", " ", "developer">>)}
\* The arguments scripts pass to recommend: also a query with a duration
\* and no domain keyword, one with neither, and top_k up to the over-fetch
\* window.
RecQueries ==
  QueryOpts \cup {Text(<<"40", " ", "mins">>), Text(<<"hello">>)}
RecTopKs == TopKs \cup {DEFAULT_TOP_K, OverFetch}
JdOpts == {NoText, Text(<<"url">>)}
JdTexts == {<<"jd">>}
Kinds == {"startup", "health", "recommend"}

\* ---------------------------------------------------------- direct calls
\* Candidate lists as retrieve_candidates hands them to rerank: catalog
\* records with a retrieval_score, best first.
Cand(tt, dur, sc) ==
  [name |-> Str("item"), url |-> Str("https://shl/item"), test_type |-> tt,
   duration_minutes |-> dur, category |-> Str("Skills"),
   description |-> Str("d"), tags |-> Str("t"), text_blob |-> Str("item"),
   retrieval_score |-> Num(sc)]

Rep(x, n) == [j \in 1..n |-> x]
\* nT technical, nB behavioral, nC cognitive and nO other test types, one
\* domain after the other.
Blocks(nT, nB, nC, nO) == Rep("K", nT) \o Rep("P", nB) \o Rep("C", nC) \o Rep("X", nO)
\* The same test types taken in turn, behavioral first.
RECURSIVE RoundRobin(_, _, _, _)
RoundRobin(nT, nB, nC, nO) ==
  IF nT + nB + nC + nO = 0 THEN <<>>
  ELSE Rep("P", Min(nB, 1)) \o Rep("K", Min(nT, 1)) \o Rep("X", Min(nO, 1))
       \o Rep("C", Min(nC, 1))
       \o RoundRobin(Max(nT - 1, 0), Max(nB - 1, 0), Max(nC - 1, 0), Max(nO - 1, 0))
DurAt(j) ==
  CASE j % 3 = 1 -> Num(30)
    [] j % 3 = 2 -> Num(90)
    [] OTHER -> PyNone
\* The records for a sequence of test types; with dup the best record
\* occurs twice (two catalog rows that are field-for-field equal).
CandList(types, dup) ==
  LET base == [j \in 1..Len(types) |-> Cand(Str(types[j]), DurAt(j), 1000 - j)]
  IN IF dup /\ base # <<>> THEN <<base[1]>> \o base ELSE base
RankLists ==
  {CandList(IF mixed THEN RoundRobin(nT, nB, nC, nO) ELSE Blocks(nT, nB, nC, nO), dup) :
     nT \in 0..MaxBucket, nB \in 0..MaxBucket, nC \in 0..1, nO \in 0..1,
     mixed \in BOOLEAN, dup \in BOOLEAN}
Domains ==
  [wants_technical : BOOLEAN, wants_behavioral : BOOLEAN, wants_cognitive : BOOLEAN]
RankKs == (0..MaxTopK) \cup {DEFAULT_TOP_K}
RankTexts ==
  {<<"java", " ", "developer">>,
   <<"java", " ", "team", " ", "40", " ", "mins">>,
   <<"1.5", " ", "hours">>,
   <<"hello">>}
NormQueries == QueryOpts \cup {Text(<<" ", "java", " ">>)}
\* What requests.get can give fetch_jd_from_url: a page, or an exception.
Pages == {[ok |-> TRUE, text |-> t] : t \in JdTexts} \cup {[ok |-> FALSE]}

\* Candidate lists for the duration filter: every way a duration can be
\* stored (a number within or above the limit, None, the NaN of an empty
\* cell) or be missing from the record.
MaxFilter == 3
FilterCands ==
  {Cand(Str("K"), d, 900) : d \in {Num(30), Num(90), PyNone, NaN}}
  \cup {[name |-> Str("item"), test_type |-> Str("K"), retrieval_score |-> Num(900)]}
FilterLists == UNION {[1..n -> FilterCands] : n \in 0..MaxFilter}
MaxMinutes == {NoInt, SomeInt(30), SomeInt(40)}

\* Texts for infer_max_duration: no duration, minutes only, hours only,
\* both in either order, fractions.
DurationTexts ==
  {<<"hello">>,
   <<"90", " ", "minutes">>,
   <<"1.5", " ", "mins">>,
   <<"2", "Hours">>,
   <<"1.5", " ", "hours">>,
   <<"4.1", " ", "hours">>,
   <<"30", " ", "mins", " ", "2", " ", "hours">>,
   <<"2", " ", "hours", " ", "30", " ", "mins">>,
   <<"40", " ", "mins", " ", "30", " ", "min">>,
   <<"java", " ", "2", " ", "40", " ", "mins">>}

\* The arguments of one direct call.
RankInputs ==
  {[fn |-> "balance", cands |-> c, dd |-> d, k |-> k] :
     c \in RankLists, d \in Domains, k \in RankKs}
  \cup {[fn |-> "rerank", text |-> t, cands |-> c, k |-> k] :
          t \in RankTexts, c \in RankLists, k \in RankKs}
  \cup {[fn |-> "normalize", query |-> q, jd |-> j] : q \in NormQueries, j \in JdOpts}
  \cup {[fn |-> "filter", cands |-> c, maxd |-> m] : c \in FilterLists, m \in MaxMinutes}
  \cup {[fn |-> "duration", text |-> t] : t \in DurationTexts}

InitRank == InitBase /\ inp \in RankInputs

\* The outcome of a call that returned r.
Returned(op, r) ==
  [inst |-> 0, op |-> op, out |-> IF r.ok THEN "ok" ELSE r.err,
   v |-> IF r.ok THEN r.v ELSE <<>>]

DirectFrame ==
  UNCHANGED <<faissFile, metaFile, index, meta, ipc, loc, nbuilds,
              engine, loop, rq, nModel, nLoads, batch, inp>>

\* rerank.balance_by_domains(candidates, desired_domains, k)
BalanceCall ==
  /\ inp.fn = "balance"
  /\ ret.op = "none"
  /\ ret' = Returned("balance", balance_by_domains(inp.cands, inp.dd, inp.k))
  /\ fx' = Fx("balance", NoArgs, {})
  /\ DirectFrame

\* rerank.rerank(query, candidates, k)
RerankCall ==
  /\ inp.fn = "rerank"
  /\ ret.op = "none"
  /\ ret' = Returned("rerank", rerank(inp.text, inp.cands, inp.k))
  /\ fx' = Fx("rerank", NoArgs, {})
  /\ DirectFrame

\* recommend.py lines 46-83 on the candidates retrieve_candidates returned
\* for the normalised text.
RecommendRanked ==
  /\ inp.fn = "rerank"
  /\ ret.op = "none"
  /\ ret' = Returned("recommend", RecommendTail(inp.text, inp.cands, inp.k))
  /\ fx' = Fx("recommend_tail", NoArgs, {})
  /\ DirectFrame

\* RecommenderService.normalize_input(query_text, jd_url); page is what
\* the fetch gives when it is made.
NormalizeCall(page) ==
  /\ inp.fn = "normalize"
  /\ ret.op = "none"
  /\ CASE NormalizeStart(inp.query, inp.jd) = "fetch" ->
            /\ fx' = Fx("normalize", NoArgs, {"fetch"})
            /\ ret' = IF page.ok
                      THEN [inst |-> 0, op |-> "normalize", out |-> "ok",
                            text |-> NormalizeFetched(inp.query, page.text),
                            page |-> page]
                      ELSE [inst |-> 0, op |-> "normalize", out |-> "RequestException"]
       [] NormalizeStart(inp.query, inp.jd) = "text" ->
            /\ fx' = Fx("normalize", NoArgs, {})
            /\ ret' = [inst |-> 0, op |-> "normalize", out |-> "ok",
                       text |-> Strip(inp.query.toks)]
       [] OTHER ->
            /\ fx' = Fx("normalize", NoArgs, {})
            /\ ret' = [inst |-> 0, op |-> "normalize", out |-> "ValueError"]
  /\ DirectFrame

\* rerank.apply_duration_filter(candidates, max_minutes); arg is the
\* caller's list after the call.
FilterCall ==
  /\ inp.fn = "filter"
  /\ ret.op = "none"
  /\ ret' = [inst |-> 0, op |-> "filter", out |-> "ok",
             v |-> apply_duration_filter(inp.cands, inp.maxd), arg |-> inp.cands]
  /\ fx' = Fx("filter", NoArgs, {})
  /\ DirectFrame

\* rerank.infer_max_duration(query)
DurationCall ==
  /\ inp.fn = "duration"
  /\ ret.op = "none"
  /\ ret' = [inst |-> 0, op |-> "duration", out |-> "ok",
             v |-> infer_max_duration(inp.text)]
  /\ fx' = Fx("duration", NoArgs, {})
  /\ DirectFrame

\* Direct calls of the pure functions, one call per behaviour.
NextRank ==
  \/ BalanceCall
  \/ RerankCall
  \/ RecommendRanked
  \/ \E page \in Pages : NormalizeCall(page)
  \/ FilterCall
  \/ DurationCall

SpecRank == InitRank /\ [][NextRank]_vars

\* Build steps of the script instance after the call.
BuildProgress ==
  \/ \E i \in Builders : BuildOpenIndex(i)
  \/ \E i \in Builders : BuildWriteIndex(i)
  \/ \E i \in Builders : BuildSetMeta(i)
  \/ \E i \in Builders : BuildOpenMeta(i)
  \/ \E i \in Builders : BuildDumpMeta(i)
  \/ \E i \in Builders : BuildFail(i)

\* The index life cycle: build, load and get_size on both instances.
Next ==
  \/ \E i \in Builders, force \in BOOLEAN, df \in Catalogs : BuildCall(i, force, df)
  \/ BuildProgress
  \/ \E i \in Insts : LoadCall(i)
  \/ \E i \in Insts : LoadReadIndex(i)
  \/ \E i \in Insts : LoadReadMeta(i)
  \/ \E i \in Insts : SizeCall(i)
  \/ \E i \in Insts : AfterLoad(i)

Spec == Init /\ [][Next]_vars

\* Serving: the script builds, the consumer loads and answers queries.
NextServe ==
  \/ \E i \in Builders, force \in BOOLEAN, df \in Catalogs : BuildCall(i, force, df)
  \/ BuildProgress
  \/ \E i \in Servers : LoadCall(i)
  \/ \E i \in Servers : LoadReadIndex(i)
  \/ \E i \in Servers : LoadReadMeta(i)
  \/ \E i \in Servers, qv \in QueryVecs, k \in TopKs : SearchCall(i, qv, k)
  \/ \E i \in Servers, text \in Queries, k \in TopKs : RetrieveCall(i, text, k)
  \/ \E i \in Servers : AfterLoad(i)

SpecServe == Init /\ [][NextServe]_vars

\* The pipeline as the evaluation scripts drive it: build_index.py runs to
\* its end (once or several times), then a script loads the index and
\* calls recommend; no two scripts run at the same time.
Alone(i) == \A j \in Insts \ {i} : ipc[j] = "idle"
NotConsumed == ret.op \in {"none", "build"}

NextEngine ==
  \/ \E i \in Builders, df \in Catalogs : Alone(i) /\ NotConsumed /\ BuildCall(i, TRUE, df)
  \/ BuildProgress
  \/ \E i \in Servers : Alone(i) /\ LoadCall(i)
  \/ \E i \in Servers : LoadReadIndex(i)
  \/ \E i \in Servers : LoadReadMeta(i)
  \/ \E i \in Servers, query \in QueryOpts, jd \in JdOpts, topk \in TopKs :
       Alone(i) /\ RecommendCall(i, query, jd, topk)
  \/ \E i \in Servers, jdtext \in JdTexts : FetchReturn(i, jdtext)
  \/ \E i \in Servers : FetchFail(i)
  \/ \E i \in Servers : AfterLoad(i)

SpecEngine == Init /\ [][NextEngine]_vars

\* ----------------------------------------------------------------- batch
\* evaluate_train.py lines 55-80 and generate_test_preds.py lines 48-82:
\* the script loads the index, then calls recommend for each query in turn.
MaxQueries == 2
BatchTexts == {<<>>, <<"java", " ", "developer">>, <<"hello">>}
\* The queries of a batch.  evaluate_train.py iterates over the keys of a
\* dict, which are distinct; the test sheet may repeat a query.
BatchQueries(kind) ==
  {qs \in UNION {[1..n -> BatchTexts] : n \in 1..MaxQueries} :
     kind = "train" => \A a, b \in 1..Len(qs) : a # b => qs[a] # qs[b]}

\* except Exception catches only a ValueError.
CaughtValueErrorOnly(err) == err = "ValueError"
\* except Exception: every error recommend can end in is an Exception,
\* also those of an implicit load (the RuntimeError of faiss.read_index,
\* json.JSONDecodeError, FileNotFoundError).
Caught(err) ==
  err \in {"ValueError", "AttributeError", "AssertionError", "TypeError",
           "RequestException", "FileNotFoundError", "ReadError",
           "JSONDecodeError"}

Urls(recs) == [j \in 1..Len(recs) |-> recs[j].assessment_url]
RowsFor(q, recs) ==
  [j \in 1..Len(recs) |-> [Query |-> q, Assessment_url |-> recs[j].assessment_url]]

\* The loop body once recommend returned or raised r for query q.
LoopBody(b, q, r) ==
  IF r.out = "ok"
  THEN [b EXCEPT !.pos = @ + 1,
                 !.log = Append(@, "ok"),
                 !.preds = IF b.kind = "train"
                           THEN Append(@, [query |-> q, urls |-> Urls(r.results)])
                           ELSE @,
                 !.rows = IF b.kind = "test" THEN @ \o RowsFor(q, r.results) ELSE @]
  ELSE IF Caught(r.out)
  THEN [b EXCEPT !.pos = @ + 1,
                 !.log = Append(@, r.out),
                 !.preds = IF b.kind = "train"
                           THEN Append(@, [query |-> q, urls |-> <<>>])
                           ELSE @]
  ELSE [b EXCEPT !.aborted = TRUE]

\* The script reaches its loop: index.load() has returned.
BatchStart(i, kind, queries) ==
  /\ batch = NoBatch
  /\ ret.op = "load" /\ ret.out = "ok" /\ ret.inst = i
  /\ ipc[i] = "idle"
  /\ batch' = [kind |-> kind, inst |-> i, queries |-> queries, pos |-> 1,
               log |-> <<>>, preds |-> <<>>, rows |-> <<>>, aborted |-> FALSE]
  /\ fx' = Step({})
  /\ UNCHANGED <<faissFile, metaFile, index, meta, ipc, loc, ret, nbuilds,
                 engine, loop, rq, nModel, nLoads, inp>>

\* One pass of the loop: recommend(query, jd_url=None, top_k=10) inside
\* try / except Exception.
BatchStep(i) ==
  /\ batch # NoBatch
  /\ batch.inst = i
  /\ ~batch.aborted
  /\ batch.pos <= Len(batch.queries)
  /\ index[i] # None
  /\ RecommendBody(i, Text(batch.queries[batch.pos]), NoText, 10)
  /\ batch' = LoopBody(batch, batch.queries[batch.pos], ret')
  /\ UNCHANGED <<engine, loop, rq, nModel, nLoads, inp>>

\* A script that builds the artifacts, then makes one recommendation on a
\* fresh engine.
FirstQuery == ret.op # "recommend"
NextQuery ==
  \/ \E i \in Builders, df \in Catalogs : Alone(i) /\ NotConsumed /\ BuildCall(i, TRUE, df)
  \/ BuildProgress
  \/ \E i \in Servers : Alone(i) /\ FirstQuery /\ LoadCall(i)
  \/ \E i \in Servers : LoadReadIndex(i)
  \/ \E i \in Servers : LoadReadMeta(i)
  \/ \E i \in Servers, query \in RecQueries, jd \in JdOpts, topk \in RecTopKs :
       Alone(i) /\ FirstQuery /\ RecommendCall(i, query, jd, topk)
  \/ \E i \in Servers, jdtext \in JdTexts : FetchReturn(i, jdtext)
  \/ \E i \in Servers : FetchFail(i)
  \/ \E i \in Servers : AfterLoad(i)

SpecQuery == Init /\ [][NextQuery]_vars

\* build_index.py runs, then an evaluation script loads the index and
\* works through its queries.
NextBatch ==
  \/ \E i \in Builders, df \in Catalogs : Alone(i) /\ NotConsumed /\ BuildCall(i, TRUE, df)
  \/ BuildProgress
  \/ \E i \in Servers : Alone(i) /\ batch = NoBatch /\ LoadCall(i)
  \/ \E i \in Servers : LoadReadIndex(i)
  \/ \E i \in Servers : LoadReadMeta(i)
  \/ \E i \in Servers, kind \in {"train", "test"} :
       \E queries \in BatchQueries(kind) : BatchStart(i, kind, queries)
  \/ \E i \in Servers : BatchStep(i)

SpecBatch == Init /\ [][NextBatch]_vars

\* The server process next to a build script that rewrites the artifacts.
NextApp ==
  \/ \E i \in Builders, df \in Catalogs : BuildCall(i, TRUE, df)
  \/ BuildProgress
  \/ \E r \in Reqs, kind \in Kinds, query \in QueryOpts, jd \in JdOpts :
       HandlerStart(r, kind, query, jd)
  \/ LoadReadIndex(Server)
  \/ LoadReadMeta(Server)
  \/ \E r \in Reqs : EngineLoaded(r)
  \/ \E r \in Reqs : EngineFailed(r)
  \/ \E r \in Reqs : HandlerContinue(r)
  \/ \E r \in Reqs, jdtext \in JdTexts : ReqFetchReturn(r, jdtext)
  \/ \E r \in Reqs : ReqFetchFail(r)

SpecApp == Init /\ [][NextApp]_vars

\* The server process answering the startup event and health checks while
\* a build script rewrites the artifacts.
NextInit ==
  \/ \E i \in Builders : BuildCall(i, TRUE, Catalog(MaxRows))
  \/ BuildProgress
  \/ \E r \in Reqs, kind \in {"startup", "health"} : HandlerStart(r, kind, NoText, NoText)
  \/ \E r \in Reqs, kind \in {"startup", "health"} : HandlerStartModelFails(r, kind)
  \/ LoadReadIndex(Server)
  \/ LoadReadMeta(Server)
  \/ \E r \in Reqs : EngineLoaded(r)
  \/ \E r \in Reqs : EngineFailed(r)
  \/ \E r \in Reqs : HandlerContinue(r)

SpecInit == Init /\ [][NextInit]_vars

\* ================================================================ claims
\* The step changed the position of instance i or finished an operation
\* on it.
StepOn(i) == ipc'[i] # ipc[i] \/ (ret' # ret /\ ret'.inst = i)
\* load() on instance i returned normally in this step.
LoadOk(i) ==
  /\ ipc[i] = "l_read_meta"
  /\ \/ ipc'[i] = "after_load"
     \/ ipc'[i] = "idle" /\ ret'.inst = i /\ ret'.op = "load" /\ ret'.out = "ok"
\* The vector stored for a catalog row.
RowVector(row) == normalize_L2(embed_text(Tokens(FillNa(row.text_blob))))
NonIncreasing(scores) ==
  \A a, b \in 1..Len(scores) : a < b => scores[a] >= scores[b]

\* C1: serving never mutates the shared index: the metadata array of an
\* instance (every field and the key set of every row) changes only when
\* load or build assigns it, never in a search, retrieve_candidates or
\* recommend step.
C1_ServingLeavesMeta ==
  [][\A i \in Insts :
       meta'[i] # meta[i] => ipc[i] \in {"l_read_meta", "b_set_meta"}]_vars

\* C2: the vector index and the metadata array that a load() returns come
\* from the same build invocation, whatever a concurrent or interrupted
\* build has written.
C2_LoadedPairFromOneBuild ==
  [][\A i \in Insts : LoadOk(i) => index'[i].build = meta'[i].build]_vars

\* C3: whenever an instance is at rest with its vector index set, its
\* metadata array is set too and has as many rows as the index has vectors.
C3_ReadyHasMatchingMeta ==
  \A i \in Insts :
    (ipc[i] = "idle" /\ index[i] # None) =>
      (meta[i] # None /\ Len(meta[i].rows) = Len(index[i].vecs))

\* C4: build then load: when load() runs after a completed build of a
\* snapshot df (no other operation finished and no build started in
\* between), the loaded index has Len(df) vectors, the loaded metadata has
\* Len(df) rows, row j equals df[j] and vector j is the normalised
\* embedding of df[j].text_blob.
C4_BuildLoadRoundTrip ==
  [][\A i \in Insts :
       (/\ LoadOk(i)
        /\ loc[i].after.op = "build"
        /\ loc[i].after = ret
        /\ ret.id = nbuilds)
       => (/\ Len(index'[i].vecs) = Len(ret.df)
           /\ Len(meta'[i].rows) = Len(ret.df)
           /\ \A j \in 1..Len(ret.df) :
                /\ meta'[i].rows[j] = ret.df[j]
                /\ index'[i].vecs[j] = RowVector(ret.df[j]))]_vars
\* a load that returned right after a build of MaxRows rows, the first two
\* of them different
C4_Witness ==
  /\ ret.op = "load" /\ ret.out = "ok"
  /\ ret.after.op = "build" /\ ret.after.id = nbuilds
  /\ Len(ret.after.df) = MaxRows
  /\ ret.after.df[1] # ret.after.df[2]
  /\ Len(index[ret.inst].vecs) = MaxRows

\* C5: a search that returns gives scores in non-increasing order, at most
\* min(top_k, size) records, as many scores as records, and the j-th score
\* is the similarity between the query and the j-th returned record.
C5_SearchResultAligned ==
  (ret.op \in {"search", "retrieve"} /\ ret.out = "ok") =>
    /\ NonIncreasing(ret.scores)
    /\ Len(ret.rows) <= Min(ret.k, ret.ntotal)
    /\ Len(ret.scores) = Len(ret.rows)
    /\ \A j \in 1..Len(ret.rows) :
         ret.scores[j] = InnerProduct(ret.q, RowVector(ret.rows[j]))

\* C6: a step that calls load() on an instance while an artifact is absent
\* ends in FileNotFoundError and leaves the instance's index and metadata
\* as they were.
C6_LoadNotFound ==
  [][\A i \in Insts :
       (/\ "load" \in fx'.did
        /\ StepOn(i)
        /\ ~Exists(faissFile) \/ ~Exists(metaFile))
       => (/\ ret'.inst = i
           /\ ret'.out = "FileNotFoundError"
           /\ ipc'[i] = "idle"
           /\ index'[i] = index[i]
           /\ meta'[i] = meta[i])]_vars
\* load() has just failed with the vector artifact present and the
\* metadata artifact absent, on an instance that holds the metadata of an
\* interrupted build
C6_Witness ==
  /\ ret.op = "load" /\ ret.out = "FileNotFoundError"
  /\ fx.call = "load"
  /\ Exists(faissFile) /\ ~Exists(metaFile)
  /\ index[ret.inst] = None
  /\ meta[ret.inst] # None

\* C7: build(force=False) called while both artifacts exist writes no
\* artifact, reads no snapshot, calls no embedder and leaves the
\* instance's index and metadata unchanged.
C7_UnforcedBuildIsNoOp ==
  [][(/\ fx'.call = "build"
      /\ ~fx'.args.force
      /\ Exists(faissFile) /\ Exists(metaFile))
     => (/\ fx'.did = {}
         /\ UNCHANGED <<faissFile, metaFile, index, meta, ipc, loc>>)]_vars
\* an unforced build has just returned early on a built instance
C7_Witness ==
  /\ fx.call = "build" /\ ~fx.args.force
  /\ ret.op = "build" /\ ret.out = "skipped"
  /\ Exists(faissFile) /\ Exists(metaFile)
  /\ index[ret.inst] # None

\* C8: lazy initialisation happens at most once: the embedding model is
\* constructed at most once, the index is loaded at most once, and every
\* caller of get_engine receives the same engine.
C8_InitialisedOnce ==
  /\ nModel <= 1
  /\ nLoads <= 1
  /\ \A r \in Reqs : rq[r].pc = "ready" => rq[r].eng = 1

\* C9: while one request waits inside fetch_jd_from_url, any other request
\* that has not started can start.
C9_FetchBlocksOnlyItsRequest ==
  \A r, r2 \in Reqs :
    (rq[r].pc = "fetching" /\ r2 # r /\ rq[r2].pc = "new") =>
      ENABLED (\E kind \in Kinds, query \in QueryOpts, jd \in JdOpts :
                 HandlerStart(r2, kind, query, jd))

\* C10: recommend(None, None, k) raises ValueError in the step that calls
\* it, with no fetch, no embedding and no index search or load.
C10_NoInputRaisesFirst ==
  [][(/\ fx'.call = "recommend"
      /\ ~fx'.args.query.given
      /\ ~fx'.args.jd.given)
     => (/\ ret'.op = "recommend"
         /\ ret'.out = "ValueError"
         /\ fx'.did = {}
         /\ UNCHANGED <<index, meta, ipc, loc>>)]_vars
\* recommend(None, None) has just raised on a loaded, non-empty index
C10_Witness ==
  /\ fx.call = "recommend"
  /\ ~fx.args.query.given /\ ~fx.args.jd.given
  /\ ret.op = "recommend" /\ ret.out = "ValueError"
  /\ index[ret.inst] # None
  /\ Len(index[ret.inst].vecs) > 0

\* C11: recommend(query="", jd_url=None, top_k) raises no error: the step
\* that calls it embeds the empty string, and on a loaded non-empty index
\* with top_k > 0 it returns a non-empty list.
C11_EmptyQueryIsServed ==
  [][\A i \in Insts :
       (/\ fx'.call = "recommend"
        /\ StepOn(i)
        /\ fx'.args.query = Text(<<>>)
        /\ ~fx'.args.jd.given)
       => (/\ "embed" \in fx'.did
           /\ (index[i] # None /\ meta[i] # None /\ fx'.args.topk > 0
                /\ Len(index[i].vecs) > 0 /\ Len(meta[i].rows) = Len(index[i].vecs))
              => (ret'.out = "ok" /\ ret'.results # <<>>))]_vars

\* C12: normalize_input returns trim(q), a blank line and the fetched text j
\* when query text and jd_url are both given, j alone when only jd_url is
\* given, trim(q) when only the query text is given, and the fetcher is
\* called exactly when jd_url is given.  Given means not None.
C12_NormalizeInputText ==
  ret.op = "normalize" =>
    /\ ("fetch" \in fx.did) <=> inp.jd.given
    /\ (inp.query.given /\ ~inp.jd.given) => ret.out = "ok"
    /\ ret.out = "ok" =>
         ret.text = CASE inp.query.given /\ inp.jd.given ->
                           Strip(inp.query.toks) \o <<"\n\n">> \o ret.page.text
                      [] inp.jd.given -> ret.page.text
                      [] OTHER -> Strip(inp.query.toks)

\* C13: for every query text, candidate list and k >= 0, rerank returns at
\* most k candidates, and recommend returns a list of length 0..top_k.
C13_AtMostK ==
  (ret.op \in {"rerank", "recommend"} /\ ret.out = "ok" /\ inp.k >= 0)
    => Len(ret.v) <= inp.k

\* rerank cut a list to exactly k > 0 records after the duration filter
\* had removed some and the domains were balanced.
C13_Witness ==
  /\ ret.op = "rerank"
  /\ ret.out = "ok"
  /\ inp.k > 0
  /\ Len(ret.v) = inp.k
  /\ infer_max_duration(inp.text).given
  /\ infer_desired_domains(inp.text).wants_technical
  /\ Len(apply_duration_filter(inp.cands, infer_max_duration(inp.text))) < Len(inp.cands)
  /\ Len(apply_duration_filter(inp.cands, infer_max_duration(inp.text))) > inp.k

\* C14: balance_by_domains returns exactly min(k, len(candidates)) records
\* for every candidate list, every combination of desired domains and every
\* k >= 0, also when two candidates are field-for-field equal.
C14_BalanceLength ==
  (ret.op = "balance" /\ ret.out = "ok" /\ inp.k >= 0)
    => Len(ret.v) = Min(inp.k, Len(inp.cands))

\* The candidates whose test type code is one of the given letters, in
\* rank order.
OfTypes(cands, letters) ==
  SelectSeq(cands, LAMBDA c : c.test_type.t = "str" /\ c.test_type.s \in letters)

\* C15: with exactly technical and behavioral desired, k = 10 and at least
\* 5 technical and 5 behavioral candidates, balance_by_domains returns the
\* 5 best technical candidates followed by the 5 best behavioral ones, each
\* group in rank order, and nothing else.
C15_EvenSplit ==
  (/\ ret.op = "balance"
   /\ ret.out = "ok"
   /\ inp.k = 10
   /\ inp.dd = [wants_technical |-> TRUE, wants_behavioral |-> TRUE,
                wants_cognitive |-> FALSE]
   /\ Len(OfTypes(inp.cands, {"K", "V"})) >= 5
   /\ Len(OfTypes(inp.cands, {"P", "L"})) >= 5)
  => ret.v = SubSeq(OfTypes(inp.cands, {"K", "V"}), 1, 5)
               \o SubSeq(OfTypes(inp.cands, {"P", "L"}), 1, 5)

\* Such a call on an interleaved list of more than 10 candidates: the
\* result is not the first 10 by rank.
C15_Witness ==
  /\ ret.op = "balance"
  /\ ret.out = "ok"
  /\ inp.k = 10
  /\ inp.dd = [wants_technical |-> TRUE, wants_behavioral |-> TRUE,
               wants_cognitive |-> FALSE]
  /\ Len(OfTypes(inp.cands, {"K", "V"})) >= 5
  /\ Len(OfTypes(inp.cands, {"P", "L"})) >= 5
  /\ Len(inp.cands) > 10
  /\ Len(ret.v) = 10
  /\ ret.v # SubSeq(inp.cands, 1, 10)

\* A duration that is absent: None, or the NaN that build persists for an
\* empty snapshot cell (a missing key reads as None).
AbsentDuration(c) == Get(c, "duration_minutes", PyNone) \in {PyNone, NaN}

\* C16: a catalog item with no duration is never removed by the duration
\* constraint: after build, load and retrieval, the duration filter that
\* rerank applies for the maximum inferred from the text keeps every
\* candidate whose duration is absent.
C16_AbsentDurationKept ==
  (ret.op = "recommend" /\ ret.out = "ok") =>
    \A j \in 1..Len(ret.cands) :
       AbsentDuration(ret.cands[j]) =>
         ret.cands[j] \in Range(apply_duration_filter(ret.cands,
                                                      infer_max_duration(ret.text)))

\* C17: for every top_k passed to recommend, the number of candidates it
\* requests from retrieve_candidates (the over-fetch window) is strictly
\* greater than top_k.
C17_WindowExceedsTopK ==
  (ret.op = "recommend" /\ ret.out = "ok") => ret.window > ret.topk

\* A candidate without a URL: the key is missing or null, the string is
\* empty, or it is the NaN loaded for an empty snapshot cell.
NoUrl(c) == Get(c, "url", PyNone) \in {PyNone, NaN, Str("")}
NonEmptyString(v) == v.t = "str" /\ v.s # ""

\* C18: in every record recommend returns, synthetic is true exactly when
\* the underlying candidate has no URL, and assessment_url is non-empty
\* exactly when synthetic is false.
C18_SyntheticIffNoUrl ==
  (ret.op = "recommend" /\ ret.out = "ok" /\ ret.cands # <<>>) =>
    LET ranked == rerank(ret.text, ret.cands, ret.topk).v
    IN \A j \in 1..Len(ret.results) :
         /\ ret.results[j].synthetic <=> NoUrl(ranked[j])
         /\ NonEmptyString(ret.results[j].assessment_url) <=> ~ret.results[j].synthetic

\* The reference construction of the balanced list, by position in the
\* candidate list: the first s positions of each desired domain in the
\* order technical, behavioral, cognitive, then the positions not selected
\* yet in rank order until k are reached, cut to k.
PositionsOf(cands, letters) ==
  SelectSeq([j \in 1..Len(cands) |-> j],
            LAMBDA j : cands[j].test_type.t = "str" /\ cands[j].test_type.s \in letters)
ReferenceBalance(cands, dd, k) ==
  LET n == Count(dd.wants_technical) + Count(dd.wants_behavioral)
             + Count(dd.wants_cognitive)
      s == IF k \div n >= 1 THEN k \div n ELSE 1
      first(want, letters) ==
        IF want
        THEN SubSeq(PositionsOf(cands, letters), 1,
                    IF s < Len(PositionsOf(cands, letters)) THEN s
                    ELSE Len(PositionsOf(cands, letters)))
        ELSE <<>>
      sel == first(dd.wants_technical, {"K", "V"})
               \o first(dd.wants_behavioral, {"P", "L"})
               \o first(dd.wants_cognitive, {"C", "N", "R"})
      others == SelectSeq([j \in 1..Len(cands) |-> j],
                          LAMBDA j : \A m \in 1..Len(sel) : sel[m] # j)
      all == sel \o others
      cut == IF k < Len(all) THEN k ELSE Len(all)
  IN [m \in 1..cut |-> cands[all[m]]]

\* C20: when at least one domain is desired, balance_by_domains returns the
\* reference construction for every input.
C20_EqualsReference ==
  (/\ ret.op = "balance"
   /\ ret.out = "ok"
   /\ inp.k >= 0
   /\ (inp.dd.wants_technical \/ inp.dd.wants_behavioral \/ inp.dd.wants_cognitive))
  => ret.v = ReferenceBalance(inp.cands, inp.dd, inp.k)

\* C19: in the batch loops a failure of recommend for one query never
\* aborts the batch: the loop goes on to the next query, the failed query
\* gets an empty prediction list (train) or no output row (test), and the
\* results of the queries before it are kept.
C19_BatchSurvivesFailure ==
  [][(batch # NoBatch /\ batch' # batch) =>
       /\ ~batch'.aborted
       /\ batch'.pos = batch.pos + 1
       /\ SubSeq(batch'.preds, 1, Len(batch.preds)) = batch.preds
       /\ SubSeq(batch'.rows, 1, Len(batch.rows)) = batch.rows
       /\ ret'.out # "ok" =>
            /\ batch.kind = "train" =>
                 batch'.preds = Append(batch.preds,
                                       [query |-> batch.queries[batch.pos], urls |-> <<>>])
            /\ batch.kind = "test" => batch'.rows = batch.rows]_vars

\* A finished train batch whose first query failed and whose second query
\* got predictions.
C19_Witness ==
  /\ batch # NoBatch
  /\ batch.kind = "train"
  /\ Len(batch.queries) >= 2
  /\ batch.pos = Len(batch.queries) + 1
  /\ batch.log[1] # "ok"
  /\ batch.preds[1].urls = <<>>
  /\ batch.log[2] = "ok"
  /\ batch.preds[2].urls # <<>>

\* C21: apply_duration_filter returns the input list unchanged when the
\* maximum is None; otherwise exactly the candidates whose duration is
\* absent or at most the maximum, in their input order; the input list is
\* not modified.
C21_FilterExact ==
  ret.op = "filter" =>
    /\ ret.arg = inp.cands
    /\ ret.v = IF ~inp.maxd.given THEN inp.cands
               ELSE SelectSeq(inp.cands,
                              LAMBDA c : \/ AbsentDuration(c)
                                         \/ /\ c.duration_minutes.t = "num"
                                            /\ c.duration_minutes.n <= inp.maxd.n)

\* C22: infer_max_duration gives the hours pattern priority wherever it
\* stands: when some "<number> hour(s)" occurs the result is the first such
\* number times 60, truncated to an integer, even after an earlier
\* "<number> min(s)"; otherwise the first "<number> min(s)" number;
\* otherwise None.
C22_HoursFirst ==
  ret.op = "duration" =>
    ret.v = IF FirstMatch(inp.text, "hour") >= 0
            THEN SomeInt((FirstMatch(inp.text, "hour") * 60) \div 10)
            ELSE IF FirstMatch(inp.text, "min") >= 0
            THEN SomeInt(FirstMatch(inp.text, "min") \div 10)
            ELSE NoInt

\* The domain the lookup table gives a test type value: K, V technical;
\* P, L behavioral; C, N, R cognitive; anything else, or nothing, other.
TableDomain(v) ==
  IF v.t # "str" THEN "other"
  ELSE CASE v.s \in {"K", "V"} -> "technical"
         [] v.s \in {"P", "L"} -> "behavioral"
         [] v.s \in {"C", "N", "R"} -> "cognitive"
         [] OTHER -> "other"

\* C23: categorize_test_type is total over every test_type value that
\* reaches it from loaded metadata: it returns the domain of the lookup
\* table, other for an absent or unrecognized value, and never raises, so
\* no recommendation ends in its error.
C23_CategorizeTotal ==
  /\ \A i \in Insts :
       meta[i] # None =>
         \A j \in 1..Len(meta[i].rows) :
            LET v == Get(meta[i].rows[j], "test_type", Str(""))
            IN /\ categorize_test_type(v).ok
               /\ categorize_test_type(v).v = TableDomain(v)
  /\ ret.op = "recommend" => ret.out # "AttributeError"

\* C24: every candidate rerank returns satisfies the duration bound
\* inferred from the query text: its duration is absent or at most the
\* bound, also for the candidates the fill step of the balancing adds.
C24_ReturnedWithinBound ==
  (ret.op = "rerank" /\ ret.out = "ok" /\ infer_max_duration(inp.text).given) =>
    \A j \in 1..Len(ret.v) :
       \/ AbsentDuration(ret.v[j])
       \/ /\ ret.v[j].duration_minutes.t = "num"
          /\ ret.v[j].duration_minutes.n <= infer_max_duration(inp.text).n

\* rerank with a bound and desired domains on a list in which some
\* candidate exceeds the bound: a candidate of no desired domain is
\* returned, which only the fill step adds.
C24_Witness ==
  /\ ret.op = "rerank"
  /\ ret.out = "ok"
  /\ infer_max_duration(inp.text).given
  /\ infer_desired_domains(inp.text).wants_technical
  /\ \E j \in 1..Len(inp.cands) :
        /\ inp.cands[j].duration_minutes.t = "num"
        /\ inp.cands[j].duration_minutes.n > infer_max_duration(inp.text).n
  /\ \E j \in 1..Len(ret.v) : ret.v[j].test_type.s \in {"X", "C"}

\* How often x occurs in a list.
Occurrences(seq, x) == Cardinality({j \in 1..Len(seq) : seq[j] = x})

\* C25: rerank and balance_by_domains never invent or repeat a candidate:
\* every returned item is an element of the input list and occurs in the
\* output at most as often as in the input, for every combination of
\* desired domains and every k.
C25_NoInventNoRepeat ==
  (ret.op \in {"balance", "rerank"} /\ ret.out = "ok") =>
    \A j \in 1..Len(ret.v) :
       /\ ret.v[j] \in Range(inp.cands)
       /\ Occurrences(ret.v, ret.v[j]) <= Occurrences(inp.cands, ret.v[j])

\* balance_by_domains with only technical desired on a list of pairwise
\* different candidates that starts with a technical one: the per-domain
\* slots took it, and the fill step went through the list again and added
\* a behavioral candidate.
C25_Witness ==
  /\ ret.op = "balance"
  /\ ret.out = "ok"
  /\ inp.dd = [wants_technical |-> TRUE, wants_behavioral |-> FALSE,
               wants_cognitive |-> FALSE]
  /\ Cardinality(Range(inp.cands)) = Len(inp.cands)
  /\ inp.k > 0
  /\ Len(inp.cands) > inp.k
  /\ inp.cands[1].test_type.s = "K"
  /\ ret.v[1] = inp.cands[1]
  /\ \E j \in 1..Len(ret.v) : ret.v[j].test_type.s = "P"

\* C26: the engine singleton is never published half-initialised: _engine
\* is set only when load() has returned with index and metadata set, and
\* only by the get_engine call whose load returned; a get_engine that fails
\* (artifacts missing, load raising) leaves _engine unset; and a call that
\* finds _engine unset attempts the initialisation again.
C26_NeverHalfInitialised ==
  [][/\ engine' # None => (index'[Server] # None /\ meta'[Server] # None)
     /\ (engine = None /\ engine' # None) =>
          (ipc[Server] = "after_load" /\ \E r \in Reqs : rq[r].pc = "init")
     /\ \A r \in Reqs :
          /\ (rq[r].pc \in {"new", "init"} /\ rq'[r].pc = "done"
                /\ rq'[r].status \in {0, 500}) => engine' = None
          /\ (engine = None /\ rq[r].pc = "new" /\ rq'[r].pc # "new") =>
               \/ rq'[r].pc = "done" /\ rq'[r].status = 400
               \/ rq'[r].pc = "done" /\ ~(Exists(faissFile) /\ Exists(metaFile))
               \/ rq'[r].pc = "done" /\ fx'.did = {"model"}
               \/ rq'[r].pc = "init" /\ {"model", "load"} \subseteq fx'.did]_vars

\* The engine is published by the second initialisation, after a first
\* one whose load raised.
C26_Witness ==
  /\ engine # None
  /\ nModel = 2
  /\ index[Server] # None
  /\ meta[Server] # None

====
